---- MODULE Spec2Model ----
(***************************************************************************)
(* Model of hand_gesture_gui.py: the gesture classifier                    *)
(* (GestureDetector.classify), the cooldown gate (GestureApp._throttle),   *)
(* the per-frame dispatch of GestureApp._loop and the start/stop life      *)
(* cycle of the worker thread.                                             *)
(*                                                                         *)
(* Units.  Normalised landmark coordinates are kept in thousandths         *)
(* (0.04 is 40), times in hundredths of a second (0.9 s is 90), so that     *)
(* every comparison of the source is an integer comparison.                *)
(***************************************************************************)
EXTENDS Integers, Sequences, FiniteSets, TLC

\* ------------------------------------------------------------------------
\* Configuration (hand_gesture_gui.py lines 41-48)
\* ------------------------------------------------------------------------
PINCH_THRESHOLD == 40
DIST_OK_THRESHOLD == 35
SMOOTHING == 25
SCROLL_SENSITIVITY == 900
SCROLL_MIN_DELTA == 4
COOLDOWN_SHORT == 35
COOLDOWN_MED == 90
COOLDOWN_SCROLL == 6

\* pyautogui.size() of the modelled display.
screen_w == 16
screen_h == 100

\* Python's None in a field that otherwise holds a non-negative number.
None == -1
\* results.multi_hand_landmarks when no hand is seen.
NoHand == <<>>

\* ------------------------------------------------------------------------
\* Bounds of the model
\* ------------------------------------------------------------------------
\* Number of worker threads start() may create in one run of the program.
MaxThreads == 2
\* First reading of time.time(); the epoch clock is far beyond any cooldown.
T0 == 100
\* Readings the clock can return, as offsets from T0 (hundredths of a second).
ClockOffsets == {0, 35, 90}
ClockReadings == {T0 + o : o \in ClockOffsets}

\* ------------------------------------------------------------------------
\* Arithmetic helpers
\* ------------------------------------------------------------------------
Abs(n) == IF n < 0 THEN -n ELSE n

\* int(n / d) of Python for d > 0: truncation toward zero.
IntTrunc(n, d) == IF n >= 0 THEN n \div d ELSE -((-n) \div d)

\* Largest r in lo..hi with r*r <= s (lo*lo <= s is given).
RECURSIVE SqrtSearch(_, _, _)
SqrtSearch(s, lo, hi) ==
  IF lo >= hi THEN lo
  ELSE LET mid == (lo + hi + 1) \div 2
       IN  IF mid * mid <= s THEN SqrtSearch(s, mid, hi)
           ELSE SqrtSearch(s, lo, mid - 1)

\* math.hypot on the integer grid, rounded down.  For an integer threshold T,
\* hypot < T holds exactly when the rounded-down value is < T.
Hypot(dx, dy) == SqrtSearch(dx * dx + dy * dy, 0, 2048)

\* ------------------------------------------------------------------------
\* Landmarks.  A landmark list is a sequence of points; Python's lm[i] is
\* the (i+1)-th element.
\* ------------------------------------------------------------------------
Pt(px, py) == [x |-> px, y |-> py]
At(lm, i) == lm[i + 1]

\* GestureDetector.finger_up
finger_up(tip, pip) == tip.y < pip.y

\* GestureDetector.euclidean
euclidean(p1, p2) == Hypot(p1.x - p2.x, p1.y - p2.y)

BoolSum(bs) == Cardinality({i \in DOMAIN bs : bs[i]})

\* classify with the OK-sign rule tried before the open-palm rule.
classify_okFirst(lm) ==
  LET thumb_up == At(lm, 4).x < At(lm, 3).x
      index_up == finger_up(At(lm, 8), At(lm, 6))
      middle_up == finger_up(At(lm, 12), At(lm, 10))
      ring_up == finger_up(At(lm, 16), At(lm, 14))
      pinky_up == finger_up(At(lm, 20), At(lm, 18))
      fingers_up_count == BoolSum(<<index_up, middle_up, ring_up, pinky_up>>)
      dist_thumb_index == euclidean(At(lm, 4), At(lm, 8))
  IN  IF dist_thumb_index < DIST_OK_THRESHOLD THEN "OK_SIGN"
      ELSE IF fingers_up_count = 4 /\ thumb_up THEN "OPEN_PALM"
      ELSE IF index_up /\ middle_up /\ ~ring_up /\ ~pinky_up THEN "PEACE"
      ELSE IF index_up /\ ~middle_up /\ ~ring_up /\ pinky_up THEN "ROCK"
      ELSE IF thumb_up /\ index_up /\ ~middle_up /\ ~ring_up /\ ~pinky_up
           THEN "L_SIGN"
      ELSE IF thumb_up /\ ~index_up /\ ~middle_up /\ ~ring_up /\ ~pinky_up
           THEN "THUMBS_UP"
      ELSE IF fingers_up_count = 0 /\ ~thumb_up THEN "FIST"
      ELSE "UNKNOWN"

\* GestureDetector.classify
classify(lm) ==
  LET thumb_up == At(lm, 4).x < At(lm, 3).x
      index_up == finger_up(At(lm, 8), At(lm, 6))
      middle_up == finger_up(At(lm, 12), At(lm, 10))
      ring_up == finger_up(At(lm, 16), At(lm, 14))
      pinky_up == finger_up(At(lm, 20), At(lm, 18))
      fingers_up_count == BoolSum(<<index_up, middle_up, ring_up, pinky_up>>)
      dist_thumb_index == euclidean(At(lm, 4), At(lm, 8))
  IN  IF fingers_up_count = 4 /\ thumb_up THEN "OPEN_PALM"
      ELSE IF dist_thumb_index < DIST_OK_THRESHOLD THEN "OK_SIGN"
      ELSE IF index_up /\ middle_up /\ ~ring_up /\ ~pinky_up THEN "PEACE"
      ELSE IF index_up /\ ~middle_up /\ ~ring_up /\ pinky_up THEN "ROCK"
      ELSE IF thumb_up /\ index_up /\ ~middle_up /\ ~ring_up /\ ~pinky_up
           THEN "L_SIGN"
      ELSE IF thumb_up /\ ~index_up /\ ~middle_up /\ ~ring_up /\ ~pinky_up
           THEN "THUMBS_UP"
      ELSE IF fingers_up_count = 0 /\ ~thumb_up THEN "FIST"
      ELSE "UNKNOWN"

\* ------------------------------------------------------------------------
\* Bounded set of hands the pose provider can report.  A hand is built from
\* the five finger states, the offset of the thumb tip from the index tip,
\* and the position of the index tip.
\* ------------------------------------------------------------------------
\* Thumb-index offsets: distance 10, 35 (= DIST_OK_THRESHOLD), 40
\* (= PINCH_THRESHOLD) and 100.
ThumbGaps == {<<10, 0>>, <<21, 28>>, <<24, 32>>, <<100, 0>>}
IndexXs == {500}
IndexYs == {400, 405, 420}

MkHand(thumb, index, middle, ring, pinky, gap, ix, iy) ==
  LET tt == Pt(ix + gap[1], iy + gap[2])
      pts == [i \in 0..20 |->
               CASE i = 4 -> tt
                 [] i = 3 -> Pt(IF thumb THEN tt.x + 10 ELSE tt.x - 10, tt.y)
                 [] i = 8 -> Pt(ix, iy)
                 [] i = 6 -> Pt(ix, IF index THEN iy + 50 ELSE iy - 50)
                 [] i = 12 -> Pt(450, IF middle THEN 450 ELSE 550)
                 [] i = 16 -> Pt(400, IF ring THEN 450 ELSE 550)
                 [] i = 20 -> Pt(350, IF pinky THEN 450 ELSE 550)
                 [] OTHER -> Pt(500, 500)]
  IN  [i \in 1..21 |-> pts[i - 1]]

AllHands ==
  {MkHand(t, i, m, r, p, g, x, y) :
     t \in BOOLEAN, i \in BOOLEAN, m \in BOOLEAN, r \in BOOLEAN,
     p \in BOOLEAN, g \in ThumbGaps, x \in IndexXs, y \in IndexYs}

\* Hands fed to the frames of a session: every classifier outcome without a
\* pinch, the pinched outcomes (distance 10 is an OK sign whatever the
\* fingers; distance 35 is a pinch but no OK sign), and an open palm at a
\* second height.
Hand(pose, gap, y) ==
  MkHand(pose[1], pose[2], pose[3], pose[4], pose[5], gap, 500, y)
OpenPalmPose == <<TRUE, TRUE, TRUE, TRUE, TRUE>>
PeacePose == <<FALSE, TRUE, TRUE, FALSE, FALSE>>
RockPose == <<FALSE, TRUE, FALSE, FALSE, TRUE>>
LSignPose == <<TRUE, TRUE, FALSE, FALSE, FALSE>>
ThumbsUpPose == <<TRUE, FALSE, FALSE, FALSE, FALSE>>
FistPose == <<FALSE, FALSE, FALSE, FALSE, FALSE>>
IndexOnlyPose == <<FALSE, TRUE, FALSE, FALSE, FALSE>>
Apart == <<100, 0>>
Touching == <<10, 0>>
Near == <<21, 28>>
FrameHands ==
  {Hand(p, Apart, 400) :
     p \in {OpenPalmPose, PeacePose, RockPose, LSignPose, ThumbsUpPose,
            FistPose, IndexOnlyPose}}
  \cup {Hand(OpenPalmPose, Apart, 405), Hand(OpenPalmPose, Near, 400),
        Hand(FistPose, Touching, 400), Hand(LSignPose, Near, 400),
        Hand(FistPose, Near, 400)}

\* Hands and clock readings fed to the frames when sessions are started and
\* stopped.
LifeHands == {Hand(OpenPalmPose, Near, 400), Hand(FistPose, Apart, 400)}
LifeReadings == {T0, T0 + 90}

\* ------------------------------------------------------------------------
\* State
\* ------------------------------------------------------------------------
Threads == 1..MaxThreads
Keys == {"volume", "mute", "click", "keyboard", "scroll"}

VARIABLES
  running,        \* self.running
  status,         \* text of self.status_label (gestures without "Gesture: ")
  cap,            \* self.cap: None or the capture object (named by its opener)
  camera,         \* camera[c]: state of the capture object opened by thread c
  pc,             \* pc[w]: position of worker thread w in _loop
  prev_mouse_x,   \* self.prev_mouse_x
  prev_mouse_y,   \* self.prev_mouse_y
  last_times,     \* self.last_times
  scroll_mode,    \* self.scroll_mode
  last_index_y,   \* self.last_index_y
  now,            \* latest reading of time.time()
  lm,             \* landmark list of the latest frame (NoHand: no hand)
  gesture_text,   \* gesture_text of the latest frame
  intents,        \* collaborator calls issued by the latest frame, in order
  gates,          \* history: the _throttle calls of the latest frame, in order
  scrollWas,      \* history: self.scroll_mode when the latest frame began
  lastEmit,       \* history: time of the latest call per cooldown key
  stopSeen,       \* history: workers that were in _loop when stop() ran
  framesRun,      \* history: framesRun[w] = worker w has run a frame step
  entering        \* entering[w]: index_tip.y held by worker w between lines
                  \* 351 and 352 (None when it is not there)

vars == <<running, status, cap, camera, pc, prev_mouse_x, prev_mouse_y,
          last_times, scroll_mode, last_index_y, now, lm, gesture_text,
          intents, gates, scrollWas, lastEmit, stopSeen, framesRun,
          entering>>

dispatcherVars == <<prev_mouse_x, prev_mouse_y, last_times, scroll_mode,
                    last_index_y, now, lm, gesture_text, intents, gates,
                    scrollWas, lastEmit>>

\* GestureApp.__init__, lines 209-223, before any button is pressed.
Init ==
  /\ running = FALSE
  /\ status = "Status: Idle"
  /\ cap = None
  /\ camera = [c \in Threads |-> "unopened"]
  /\ pc = [w \in Threads |-> "unborn"]
  /\ prev_mouse_x = None
  /\ prev_mouse_y = None
  /\ last_times = [k \in Keys |-> 0]
  /\ scroll_mode = FALSE
  /\ last_index_y = None
  /\ now = T0
  /\ lm = NoHand
  /\ gesture_text = "No hand"
  /\ intents = <<>>
  /\ gates = <<>>
  /\ scrollWas = FALSE
  /\ lastEmit = [k \in Keys |-> None]
  /\ stopSeen = {}
  /\ framesRun = [w \in Threads |-> FALSE]
  /\ entering = [w \in Threads |-> None]

Alive(w) == pc[w] \in {"open", "while", "body", "entered", "cleanup"}

\* ------------------------------------------------------------------------
\* GestureApp.start / GestureApp.stop (the two buttons)
\* ------------------------------------------------------------------------
start ==
  /\ ~running
  /\ \E w \in Threads :
       /\ pc[w] = "unborn"
       /\ \A v \in Threads : v < w => pc[v] # "unborn"
       /\ pc' = [pc EXCEPT ![w] = "open"]
  /\ running' = TRUE
  /\ status' = "Status: Running"
  /\ UNCHANGED <<cap, camera, dispatcherVars, stopSeen, framesRun>>
  /\ UNCHANGED entering

stop ==
  /\ running' = FALSE
  /\ status' = "Status: Stopped"
  /\ stopSeen' = stopSeen \cup {w \in Threads : running /\ Alive(w)}
  /\ UNCHANGED <<cap, camera, pc, dispatcherVars, framesRun>>
  /\ UNCHANGED entering

\* ------------------------------------------------------------------------
\* The dispatcher part of one frame.  The fields of self that a frame
\* touches travel through the blocks of the loop body as a record d:
\*   d.gesture_text  the local gesture_text (line 282, then line 292)
\*   d.ts   readings time.time() will return to this frame's _throttle calls
\*   d.ok   result of the latest _throttle call
\*   d.out  collaborator calls issued so far
\*   d.gates, d.lastEmit  history, as the variables of the same names
\* ------------------------------------------------------------------------
Cooldown(key) ==
  CASE key = "volume" -> COOLDOWN_SHORT
    [] key = "scroll" -> COOLDOWN_SCROLL
    [] OTHER -> COOLDOWN_MED

\* _throttle without line 239: the clock of the key is never restarted.
_throttle_noRestart(d, key, cooldown) ==
  LET t == Head(d.ts)
      ok == t - d.last_times[key] >= cooldown
  IN  [d EXCEPT !.ts = Tail(d.ts), !.now = t, !.ok = ok,
                !.gates = Append(@, [key |-> key, t |-> t, ok |-> ok,
                                     last |-> d.last_times[key]])]

\* _throttle with one clock for all keys: a firing restarts every key.
_throttle_oneClock(d, key, cooldown) ==
  LET t == Head(d.ts)
      ok == t - d.last_times[key] >= cooldown
      r == [d EXCEPT !.ts = Tail(d.ts), !.now = t, !.ok = ok,
                     !.gates = Append(@, [key |-> key, t |-> t, ok |-> ok,
                                          last |-> d.last_times[key]])]
  IN  IF ok THEN [r EXCEPT !.last_times = [k \in Keys |-> t]] ELSE r

\* GestureApp._throttle
_throttle(d, key, cooldown) ==
  LET t == Head(d.ts)
      ok == t - d.last_times[key] >= cooldown
      r == [d EXCEPT !.ts = Tail(d.ts), !.now = t, !.ok = ok,
                     !.gates = Append(@, [key |-> key, t |-> t, ok |-> ok,
                                          last |-> d.last_times[key]])]
  IN  IF ok THEN [r EXCEPT !.last_times[key] = t] ELSE r

\* A call of a collaborator that a cooldown key gates.  prev is the time of
\* the previous call gated by the same key.  A call that fails (d.fail names
\* the collaborator calls that fail in this frame) raises inside its
\* try/except (lines 317-321, 325-329, 246-257, 359-363) or is swallowed by
\* VolumeController (lines 79-110): the frame goes on with its next block.
Call(d, kind, key, arg) ==
  [d EXCEPT !.out = Append(@, [kind |-> kind, key |-> key, t |-> d.now,
                               prev |-> d.lastEmit[key], arg |-> arg,
                               failed |-> kind \in d.fail]),
            !.lastEmit[key] = d.now]

\* A call of a collaborator that no cooldown gates (pyautogui.moveTo).
CallFree(d, kind, arg) ==
  [d EXCEPT !.out = Append(@, [kind |-> kind, key |-> "none", t |-> d.now,
                               prev |-> None, arg |-> arg,
                               failed |-> kind \in d.fail])]

\* Lines 299-311.
MouseMove(d, index_tip) ==
  LET target_x == IntTrunc(index_tip.x * screen_w, 1000)
      target_y == IntTrunc(index_tip.y * screen_h, 1000)
      px == IF d.prev_mouse_x = None THEN target_x ELSE d.prev_mouse_x
      py == IF d.prev_mouse_x = None THEN target_y ELSE d.prev_mouse_y
      smooth_x == IntTrunc(px * 100 + (target_x - px) * SMOOTHING, 100)
      smooth_y == IntTrunc(py * 100 + (target_y - py) * SMOOTHING, 100)
      m == CallFree(d, "moveTo", <<smooth_x, smooth_y>>)
  IN  [m EXCEPT !.prev_mouse_x = smooth_x, !.prev_mouse_y = smooth_y]

\* Lines 313-321 with the result of _throttle ignored: every pinch clicks.
LeftClick_everyFrame(d, thumb_pos, index_pos) ==
  LET dist_pin == Hypot(thumb_pos[1] - index_pos[1], thumb_pos[2] - index_pos[2])
  IN  IF dist_pin < PINCH_THRESHOLD
      THEN Call(_throttle(d, "click", COOLDOWN_MED), "click", "click", None)
      ELSE d

\* Lines 313-321 with a pinch threshold tighter than DIST_OK_THRESHOLD.
LeftClick_tightPinch(d, thumb_pos, index_pos) ==
  LET dist_pin == Hypot(thumb_pos[1] - index_pos[1], thumb_pos[2] - index_pos[2])
  IN  IF 4 * dist_pin < PINCH_THRESHOLD
      THEN LET r == _throttle(d, "click", COOLDOWN_MED)
           IN  IF r.ok THEN Call(r, "click", "click", None) ELSE r
      ELSE d

\* Lines 313-321.
LeftClick(d, thumb_pos, index_pos) ==
  LET dist_pin == Hypot(thumb_pos[1] - index_pos[1], thumb_pos[2] - index_pos[2])
  IN  IF dist_pin < PINCH_THRESHOLD
      THEN LET r == _throttle(d, "click", COOLDOWN_MED)
           IN  IF r.ok THEN Call(r, "click", "click", None) ELSE r
      ELSE d

\* Lines 323-329 gated by another key's clock.
RightClick_otherClock(d, gesture) ==
  IF gesture = "L_SIGN"
  THEN LET r == _throttle(d, "keyboard", COOLDOWN_MED)
       IN  IF r.ok THEN Call(r, "rightClick", "click", None) ELSE r
  ELSE d

\* Lines 323-329.
RightClick(d, gesture) ==
  IF gesture = "L_SIGN"
  THEN LET r == _throttle(d, "click", COOLDOWN_MED)
       IN  IF r.ok THEN Call(r, "rightClick", "click", None) ELSE r
  ELSE d

\* Lines 331-334.
VolumeUp(d, gesture) ==
  IF gesture = "THUMBS_UP"
  THEN LET r == _throttle(d, "volume", COOLDOWN_SHORT)
       IN  IF r.ok THEN Call(r, "volume_up", "volume", None) ELSE r
  ELSE d

\* Lines 336-338 gated by another key's clock.
VolumeDown_otherClock(d, gesture) ==
  IF gesture = "FIST"
  THEN LET r == _throttle(d, "mute", COOLDOWN_SHORT)
       IN  IF r.ok THEN Call(r, "volume_down", "volume", None) ELSE r
  ELSE d

\* Lines 336-338.
VolumeDown(d, gesture) ==
  IF gesture = "FIST"
  THEN LET r == _throttle(d, "volume", COOLDOWN_SHORT)
       IN  IF r.ok THEN Call(r, "volume_down", "volume", None) ELSE r
  ELSE d

\* Lines 340-342.
Mute(d, gesture) ==
  IF gesture = "ROCK"
  THEN LET r == _throttle(d, "mute", COOLDOWN_MED)
       IN  IF r.ok THEN Call(r, "mute_unmute", "mute", None) ELSE r
  ELSE d

\* _perform_keyboard_shortcut with one clock per shortcut instead of one for
\* the three.
_perform_keyboard_shortcut_ownClocks(d, gesture) ==
  LET key == CASE gesture = "OK_SIGN" -> "keyboard"
               [] gesture = "L_SIGN" -> "mute"
               [] OTHER -> "scroll"
      r == _throttle(d, key, COOLDOWN_MED)
  IN  IF ~r.ok THEN r
      ELSE IF gesture = "OK_SIGN" THEN Call(r, "hotkey", "keyboard", "ctrl+c")
      ELSE IF gesture = "L_SIGN" THEN Call(r, "hotkey", "keyboard", "ctrl+v")
      ELSE IF gesture = "PEACE" THEN Call(r, "hotkey", "keyboard", "ctrl+s")
      ELSE r

\* GestureApp._perform_keyboard_shortcut
_perform_keyboard_shortcut(d, gesture) ==
  LET r == _throttle(d, "keyboard", COOLDOWN_MED)
  IN  IF ~r.ok THEN r
      ELSE IF gesture = "OK_SIGN" THEN Call(r, "hotkey", "keyboard", "ctrl+c")
      ELSE IF gesture = "L_SIGN" THEN Call(r, "hotkey", "keyboard", "ctrl+v")
      ELSE IF gesture = "PEACE" THEN Call(r, "hotkey", "keyboard", "ctrl+s")
      ELSE r

\* Lines 344-346.
KeyboardShortcuts(d, gesture) ==
  IF gesture \in {"OK_SIGN", "L_SIGN", "PEACE"}
  THEN _perform_keyboard_shortcut(d, gesture)
  ELSE d

\* Line 365: last_index_y * 0.85 + index_tip.y * 0.15, kept to the nearest
\* thousandth.
Baseline(b, y) == (b * 85 + y * 15 + 50) \div 100

\* Lines 348-370 without line 369: leaving scroll mode keeps the baseline.
Scrolling_keepBaseline(d, gesture, index_tip) ==
  IF gesture = "OPEN_PALM"
  THEN IF ~d.scroll_mode
       THEN [d EXCEPT !.scroll_mode = TRUE, !.last_index_y = index_tip.y]
       ELSE LET dy == d.last_index_y - index_tip.y
                r == IF Abs(dy) > SCROLL_MIN_DELTA
                     THEN _throttle(d, "scroll", COOLDOWN_SCROLL)
                     ELSE [d EXCEPT !.ok = FALSE]
                scroll_amount == IntTrunc(dy * SCROLL_SENSITIVITY, 1000)
                e == IF r.ok /\ scroll_amount # 0
                     THEN Call(r, "scroll", "scroll", scroll_amount)
                     ELSE r
            IN  [e EXCEPT !.last_index_y = Baseline(d.last_index_y, index_tip.y)]
  ELSE IF d.scroll_mode
       THEN [d EXCEPT !.scroll_mode = FALSE]
       ELSE d

\* Lines 348-370.
Scrolling(d, gesture, index_tip) ==
  IF gesture = "OPEN_PALM"
  THEN IF ~d.scroll_mode
       THEN [d EXCEPT !.scroll_mode = TRUE, !.last_index_y = index_tip.y]
       ELSE LET dy == d.last_index_y - index_tip.y
                r == IF Abs(dy) > SCROLL_MIN_DELTA
                     THEN _throttle(d, "scroll", COOLDOWN_SCROLL)
                     ELSE [d EXCEPT !.ok = FALSE]
                scroll_amount == IntTrunc(dy * SCROLL_SENSITIVITY, 1000)
                e == IF r.ok /\ scroll_amount # 0
                     THEN Call(r, "scroll", "scroll", scroll_amount)
                     ELSE r
            IN  [e EXCEPT !.last_index_y = Baseline(d.last_index_y, index_tip.y)]
  ELSE IF d.scroll_mode
       THEN [d EXCEPT !.scroll_mode = FALSE, !.last_index_y = None]
       ELSE d

\* Lines 292-370 without the try/except around the collaborator calls: the
\* first call that fails ends the frame where it stands.
HandFrame_uncaught(d, hand) ==
  LET gesture == classify(hand)
      index_tip == At(hand, 8)
      thumb_tip == At(hand, 4)
      index_pos == <<index_tip.x, index_tip.y>>
      thumb_pos == <<thumb_tip.x, thumb_tip.y>>
      raised(e) == \E i \in DOMAIN e.out : e.out[i].failed
      d1 == MouseMove(d, index_tip)
      d2 == IF raised(d1) THEN d1 ELSE LeftClick(d1, thumb_pos, index_pos)
      d3 == IF raised(d2) THEN d2 ELSE RightClick(d2, gesture)
      d4 == IF raised(d3) THEN d3 ELSE VolumeUp(d3, gesture)
      d5 == IF raised(d4) THEN d4 ELSE VolumeDown(d4, gesture)
      d6 == IF raised(d5) THEN d5 ELSE Mute(d5, gesture)
      d7 == IF raised(d6) THEN d6 ELSE KeyboardShortcuts(d6, gesture)
      d8 == IF raised(d7) THEN d7 ELSE Scrolling(d7, gesture, index_tip)
  IN  [d8 EXCEPT !.gesture_text = gesture]

\* Lines 292-370: the body of "if results and results.multi_hand_landmarks".
HandFrame(d, hand) ==
  LET gesture == classify(hand)
      index_tip == At(hand, 8)
      thumb_tip == At(hand, 4)
      index_pos == <<index_tip.x, index_tip.y>>
      thumb_pos == <<thumb_tip.x, thumb_tip.y>>
      d1 == MouseMove(d, index_tip)
      d2 == LeftClick(d1, thumb_pos, index_pos)
      d3 == RightClick(d2, gesture)
      d4 == VolumeUp(d3, gesture)
      d5 == VolumeDown(d4, gesture)
      d6 == Mute(d5, gesture)
      d7 == KeyboardShortcuts(d6, gesture)
      d8 == Scrolling(d7, gesture, index_tip)
  IN  [d8 EXCEPT !.gesture_text = gesture]

\* Number of _throttle calls HandFrame makes, i.e. of clock readings it takes:
\* the left operands of the "and"s of lines 316-356.
ThrottleCalls(hand) ==
  LET gesture == classify(hand)
      pinch == euclidean(At(hand, 4), At(hand, 8)) < PINCH_THRESHOLD
      scrolls == /\ gesture = "OPEN_PALM"
                 /\ scroll_mode
                 /\ Abs(last_index_y - At(hand, 8).y) > SCROLL_MIN_DELTA
  IN  BoolSum(<<pinch,
                gesture \in {"L_SIGN", "THUMBS_UP", "FIST", "ROCK"},
                gesture \in {"OK_SIGN", "L_SIGN", "PEACE"},
                scrolls>>)

\* The non-decreasing sequences of n clock readings, none before "from".
ReadingSeqs(R, from, n) ==
  {s \in [1..n -> {r \in R : r >= from}] :
     \A i \in 1..(n - 1) : s[i] <= s[i + 1]}

Self(ts, fail) ==
  [last_times |-> last_times, prev_mouse_x |-> prev_mouse_x,
   prev_mouse_y |-> prev_mouse_y, scroll_mode |-> scroll_mode,
   last_index_y |-> last_index_y, now |-> now, lastEmit |-> lastEmit,
   gesture_text |-> "No hand", ts |-> ts, ok |-> FALSE, out |-> <<>>,
   gates |-> <<>>, fail |-> fail]

\* ------------------------------------------------------------------------
\* GestureApp._loop, one action per step of worker thread w
\* ------------------------------------------------------------------------
\* Lines 260-265: open the camera.  The assignment to self.cap drops the
\* reference to the capture an earlier thread stored there; whether that
\* capture's device is released at once (its destructor runs) or stays open
\* is up to the interpreter's memory management.
OpenCamera(w) ==
  /\ pc[w] = "open"
  /\ cap' = w
  /\ \E collected \in BOOLEAN :
       camera' = [c \in Threads |->
                    IF c = w THEN "open"
                    ELSE IF c = cap /\ collected THEN "released"
                    ELSE camera[c]]
  /\ pc' = [pc EXCEPT ![w] = "while"]
  /\ UNCHANGED <<running, status, dispatcherVars, stopSeen, framesRun>>
  /\ UNCHANGED entering

\* Line 267: the loop condition.
LoopTest(w) ==
  /\ pc[w] = "while"
  /\ pc' = [pc EXCEPT ![w] = IF running THEN "body" ELSE "cleanup"]
  /\ UNCHANGED <<running, status, cap, camera, dispatcherVars, stopSeen,
                 framesRun>>
  /\ UNCHANGED entering

\* Lines 268-271: cap.read() gives no frame.
FrameNoRead(w) ==
  /\ pc[w] = "body"
  /\ pc' = [pc EXCEPT ![w] = "while"]
  /\ UNCHANGED <<running, status, cap, camera, dispatcherVars, stopSeen,
                 framesRun>>
  /\ UNCHANGED entering

\* A frame without a hand that forgets the smoothed pointer position, as the
\* cleanup of lines 389-390 does.
FrameNoHand_forgetPointer(w) ==
  /\ pc[w] = "body"
  /\ camera[cap] = "open"
  /\ lm' = NoHand
  /\ gesture_text' = "No hand"
  /\ intents' = <<>>
  /\ gates' = <<>>
  /\ scrollWas' = scroll_mode
  /\ status' = "No hand"
  /\ prev_mouse_x' = None
  /\ prev_mouse_y' = None
  /\ framesRun' = [framesRun EXCEPT ![w] = TRUE]
  /\ pc' = [pc EXCEPT ![w] = "while"]
  /\ UNCHANGED <<running, cap, camera, last_times, scroll_mode, last_index_y,
                 now, lastEmit, stopSeen>>
  /\ UNCHANGED entering

\* Lines 268-381 when the frame shows no hand.
FrameNoHand(w) ==
  /\ pc[w] = "body"
  /\ camera[cap] = "open"
  /\ lm' = NoHand
  /\ gesture_text' = "No hand"
  /\ intents' = <<>>
  /\ gates' = <<>>
  /\ scrollWas' = scroll_mode
  /\ status' = "No hand"
  /\ framesRun' = [framesRun EXCEPT ![w] = TRUE]
  /\ pc' = [pc EXCEPT ![w] = "while"]
  /\ UNCHANGED <<running, cap, camera, prev_mouse_x, prev_mouse_y, last_times,
                 scroll_mode, last_index_y, now, lastEmit, stopSeen>>
  /\ UNCHANGED entering

\* Lines 268-381 when the frame shows a hand; F holds the sets of
\* collaborator calls that may fail in one frame.
FrameHandFailing(w, H, R, F) ==
  /\ pc[w] = "body"
  /\ camera[cap] = "open"
  /\ \E hand \in H, fail \in F :
       \E ts \in ReadingSeqs(R, now, ThrottleCalls(hand)) :
         \E d \in {HandFrame(Self(ts, fail), hand)} :
             /\ lm' = hand
             /\ gesture_text' = d.gesture_text
             /\ prev_mouse_x' = d.prev_mouse_x
             /\ prev_mouse_y' = d.prev_mouse_y
             /\ last_times' = d.last_times
             /\ scroll_mode' = d.scroll_mode
             /\ last_index_y' = d.last_index_y
             /\ now' = d.now
             /\ intents' = d.out
             /\ gates' = d.gates
             /\ scrollWas' = scroll_mode
             /\ lastEmit' = d.lastEmit
             /\ status' = d.gesture_text
  /\ framesRun' = [framesRun EXCEPT ![w] = TRUE]
  /\ pc' = [pc EXCEPT ![w] = "while"]
  /\ UNCHANGED <<running, cap, camera, stopSeen>>
  /\ UNCHANGED entering

\* Lines 268-381 when the frame shows a hand and every collaborator call
\* succeeds.
FrameHand(w, H, R) == FrameHandFailing(w, H, R, {{}})

\* Lines 268-351 of a frame whose open palm enters scroll mode: everything
\* the frame does up to and including "self.scroll_mode = True".  Another
\* thread can run between this statement and the next.
EnterScroll(w, H, R) ==
  /\ pc[w] = "body"
  /\ camera[cap] = "open"
  /\ ~scroll_mode
  /\ \E hand \in H :
       /\ classify(hand) = "OPEN_PALM"
       /\ \E ts \in ReadingSeqs(R, now, ThrottleCalls(hand)) :
            \E d \in {HandFrame(Self(ts, {}), hand)} :
              /\ lm' = hand
              /\ gesture_text' = d.gesture_text
              /\ prev_mouse_x' = d.prev_mouse_x
              /\ prev_mouse_y' = d.prev_mouse_y
              /\ last_times' = d.last_times
              /\ scroll_mode' = TRUE
              /\ now' = d.now
              /\ intents' = d.out
              /\ gates' = d.gates
              /\ scrollWas' = scroll_mode
              /\ lastEmit' = d.lastEmit
              /\ entering' = [entering EXCEPT ![w] = At(hand, 8).y]
  /\ pc' = [pc EXCEPT ![w] = "entered"]
  /\ UNCHANGED <<running, status, cap, camera, last_index_y, stopSeen,
                 framesRun>>

\* Lines 352-381 of that frame: "self.last_index_y = index_tip.y", then the
\* display and the status label.
StoreBaseline(w) ==
  /\ pc[w] = "entered"
  /\ last_index_y' = entering[w]
  /\ entering' = [entering EXCEPT ![w] = None]
  /\ status' = "OPEN_PALM"
  /\ framesRun' = [framesRun EXCEPT ![w] = TRUE]
  /\ pc' = [pc EXCEPT ![w] = "while"]
  /\ UNCHANGED <<running, cap, camera, prev_mouse_x, prev_mouse_y, last_times,
                 scroll_mode, now, lm, gesture_text, intents, gates,
                 scrollWas, lastEmit, stopSeen>>

\* Lines 383-390: leave the loop, release self.cap, forget the pointer.
Cleanup(w) ==
  /\ pc[w] = "cleanup"
  /\ camera' = [camera EXCEPT ![cap] = "released"]
  /\ prev_mouse_x' = None
  /\ prev_mouse_y' = None
  /\ pc' = [pc EXCEPT ![w] = "done"]
  /\ UNCHANGED <<running, status, cap, last_times, scroll_mode, last_index_y,
                 now, lm, gesture_text, intents, gates, scrollWas, lastEmit,
                 stopSeen, framesRun>>
  /\ UNCHANGED entering

\* The program: the two buttons and the worker threads.  A frame is one step,
\* except that the frame that enters scroll mode may also be taken in two
\* steps, so that another thread can come between its two assignments.
Next ==
  \/ start
  \/ stop
  \/ \E w \in Threads : OpenCamera(w)
  \/ \E w \in Threads : LoopTest(w)
  \/ \E w \in Threads : FrameNoRead(w)
  \/ \E w \in Threads : FrameNoHand(w)
  \/ \E w \in Threads : FrameHand(w, LifeHands, LifeReadings)
  \/ \E w \in Threads : EnterScroll(w, LifeHands, LifeReadings)
  \/ \E w \in Threads : StoreBaseline(w)
  \/ \E w \in Threads : Cleanup(w)

Spec == Init /\ [][Next]_vars

\* The program with every worker thread scheduled again and again: a daemon
\* thread that can take a step of _loop eventually takes it.
WorkerStep(w) ==
  \/ OpenCamera(w)
  \/ LoopTest(w)
  \/ FrameNoRead(w)
  \/ FrameNoHand(w)
  \/ FrameHand(w, LifeHands, LifeReadings)
  \/ EnterScroll(w, LifeHands, LifeReadings)
  \/ StoreBaseline(w)
  \/ Cleanup(w)

FairSpec == Spec /\ \A w \in Threads : WF_vars(WorkerStep(w))

\* One session that is started and not stopped, fed every hand of FrameHands
\* at every clock reading.
NextFrames ==
  \/ start
  \/ \E w \in Threads : OpenCamera(w)
  \/ \E w \in Threads : LoopTest(w)
  \/ \E w \in Threads : FrameNoRead(w)
  \/ \E w \in Threads : FrameNoHand(w)
  \/ \E w \in Threads : FrameHand(w, FrameHands, ClockReadings)

SpecFrames == Init /\ [][NextFrames]_vars

\* ------------------------------------------------------------------------
\* The classifier on its own: line 292, gesture_text = classify(lm), applied
\* to every hand of AllHands.
\* ------------------------------------------------------------------------
InitClassify ==
  /\ lm \in AllHands
  /\ gesture_text = "No hand"
  /\ running = FALSE
  /\ status = "Status: Idle"
  /\ cap = None
  /\ camera = [c \in Threads |-> "unopened"]
  /\ pc = [w \in Threads |-> "unborn"]
  /\ prev_mouse_x = None
  /\ prev_mouse_y = None
  /\ last_times = [k \in Keys |-> 0]
  /\ scroll_mode = FALSE
  /\ last_index_y = None
  /\ now = T0
  /\ intents = <<>>
  /\ gates = <<>>
  /\ scrollWas = FALSE
  /\ lastEmit = [k \in Keys |-> None]
  /\ stopSeen = {}
  /\ framesRun = [w \in Threads |-> FALSE]
  /\ entering = [w \in Threads |-> None]

Classify ==
  /\ gesture_text = "No hand"
  /\ gesture_text' = classify(lm)
  /\ UNCHANGED <<running, status, cap, camera, pc, prev_mouse_x, prev_mouse_y,
                 last_times, scroll_mode, last_index_y, now, lm, intents,
                 gates, scrollWas, lastEmit, stopSeen, framesRun>>
  /\ UNCHANGED entering

SpecClassify == InitClassify /\ [][Classify]_vars

\* ------------------------------------------------------------------------
\* C2
\* ------------------------------------------------------------------------
\* The raw conditions of the eight rules, read off the landmarks.
ThumbIsUp(l) == At(l, 4).x < At(l, 3).x
IndexIsUp(l) == At(l, 8).y < At(l, 6).y
MiddleIsUp(l) == At(l, 12).y < At(l, 10).y
RingIsUp(l) == At(l, 16).y < At(l, 14).y
PinkyIsUp(l) == At(l, 20).y < At(l, 18).y
PinchSq(l) ==
  (At(l, 4).x - At(l, 8).x) * (At(l, 4).x - At(l, 8).x)
    + (At(l, 4).y - At(l, 8).y) * (At(l, 4).y - At(l, 8).y)
RuleOpenPalm(l) ==
  IndexIsUp(l) /\ MiddleIsUp(l) /\ RingIsUp(l) /\ PinkyIsUp(l) /\ ThumbIsUp(l)
RuleOkSign(l) == PinchSq(l) < DIST_OK_THRESHOLD * DIST_OK_THRESHOLD
RulePeace(l) == IndexIsUp(l) /\ MiddleIsUp(l) /\ ~RingIsUp(l) /\ ~PinkyIsUp(l)
RuleRock(l) == IndexIsUp(l) /\ ~MiddleIsUp(l) /\ ~RingIsUp(l) /\ PinkyIsUp(l)
RuleLSign(l) ==
  ThumbIsUp(l) /\ IndexIsUp(l) /\ ~MiddleIsUp(l) /\ ~RingIsUp(l) /\ ~PinkyIsUp(l)
RuleThumbsUp(l) ==
  ThumbIsUp(l) /\ ~IndexIsUp(l) /\ ~MiddleIsUp(l) /\ ~RingIsUp(l) /\ ~PinkyIsUp(l)
RuleFist(l) ==
  ~ThumbIsUp(l) /\ ~IndexIsUp(l) /\ ~MiddleIsUp(l) /\ ~RingIsUp(l) /\ ~PinkyIsUp(l)

Classified == lm # NoHand /\ gesture_text # "No hand"

\* C2: classify returns, for every 21-landmark hand, the label of the first
\* rule that matches in the order OpenPalm, OkSign, Peace, Rock, LSign,
\* ThumbsUp, Fist, and Unknown when none matches; it never returns NoHand, and
\* a hand that satisfies an earlier rule never gets a later rule's label.
C2_PriorityOrder ==
  Classified =>
    /\ Len(lm) = 21
    /\ gesture_text \in {"OPEN_PALM", "OK_SIGN", "PEACE", "ROCK", "L_SIGN",
                         "THUMBS_UP", "FIST", "UNKNOWN"}
    /\ (gesture_text = "OPEN_PALM") = RuleOpenPalm(lm)
    /\ (gesture_text = "OK_SIGN") = (~RuleOpenPalm(lm) /\ RuleOkSign(lm))
    /\ (gesture_text = "PEACE") =
         (~RuleOpenPalm(lm) /\ ~RuleOkSign(lm) /\ RulePeace(lm))
    /\ (gesture_text = "ROCK") =
         (~RuleOpenPalm(lm) /\ ~RuleOkSign(lm) /\ ~RulePeace(lm) /\ RuleRock(lm))
    /\ (gesture_text = "L_SIGN") =
         (/\ ~RuleOpenPalm(lm) /\ ~RuleOkSign(lm) /\ ~RulePeace(lm)
          /\ ~RuleRock(lm) /\ RuleLSign(lm))
    /\ (gesture_text = "THUMBS_UP") =
         (/\ ~RuleOpenPalm(lm) /\ ~RuleOkSign(lm) /\ ~RulePeace(lm)
          /\ ~RuleRock(lm) /\ ~RuleLSign(lm) /\ RuleThumbsUp(lm))
    /\ (gesture_text = "FIST") =
         (/\ ~RuleOpenPalm(lm) /\ ~RuleOkSign(lm) /\ ~RulePeace(lm)
          /\ ~RuleRock(lm) /\ ~RuleLSign(lm) /\ ~RuleThumbsUp(lm)
          /\ RuleFist(lm))

\* A hand with all five digits up whose thumb and index tips touch has been
\* classified.
C2_Witness ==
  /\ Classified
  /\ RuleOpenPalm(lm) /\ RuleOkSign(lm)
  /\ gesture_text = "OPEN_PALM"

\* ------------------------------------------------------------------------
\* Vocabulary of the claims about frames
\* ------------------------------------------------------------------------
\* The latest frame showed a hand.
HandSeen == lm # NoHand
\* Its thumb and index tips were closer than PINCH_THRESHOLD.
Pinched == HandSeen /\ PinchSq(lm) < PINCH_THRESHOLD * PINCH_THRESHOLD
\* The calls of one kind it issued.
Calls(kind) == {i \in DOMAIN intents : intents[i].kind = kind}
\* The _throttle calls it made on one key.
GatesOf(key) == {j \in DOMAIN gates : gates[j].key = key}
\* The value _throttle call j left in last_times.
LeftBy(j) == IF gates[j].ok THEN gates[j].t ELSE gates[j].last
Min(S) == CHOOSE m \in S : \A n \in S : m <= n

\* ------------------------------------------------------------------------
\* C1
\* ------------------------------------------------------------------------
\* C1: over every sequence of frames with a monotonic clock, two calls gated
\* by the same cooldown key are at least that key's cooldown apart; a
\* _throttle call lets the action fire exactly when its reading is at least
\* the cooldown after last_times[key], and a firing sets last_times[key] to
\* that reading (a refusal leaves it alone).
C1_CooldownSpacing ==
  /\ \A i \in DOMAIN intents :
       (intents[i].key \in Keys /\ intents[i].prev # None)
         => intents[i].t - intents[i].prev >= Cooldown(intents[i].key)
  /\ \A j \in DOMAIN gates :
       /\ gates[j].ok = (gates[j].t - gates[j].last >= Cooldown(gates[j].key))
       /\ LET later == {k \in GatesOf(gates[j].key) : k > j}
          IN  IF later = {}
              THEN last_times[gates[j].key] = LeftBy(j)
              ELSE gates[Min(later)].last = LeftBy(j)

\* In one frame a click is refused some time after the previous click, and
\* the right-click that follows fires exactly one cooldown after it.
C1_Witness ==
  /\ \E j \in DOMAIN gates : ~gates[j].ok /\ gates[j].t > gates[j].last
  /\ \E i \in DOMAIN intents :
       /\ intents[i].key \in Keys
       /\ intents[i].prev # None
       /\ intents[i].t - intents[i].prev = Cooldown(intents[i].key)

\* ------------------------------------------------------------------------
\* C6, C7: the scroll mode
\* ------------------------------------------------------------------------
\* C6: a frame without a hand that begins in scroll mode ends with
\* scroll_mode false and the baseline cleared, as a hand frame with another
\* gesture than the open palm does.
C6_NoHandLeavesScrollMode ==
  (lm = NoHand /\ scrollWas) => (~scroll_mode /\ last_index_y = None)

\* C7: a hand frame with the open palm that begins outside scroll mode
\* enters it, takes that frame's index_tip.y as baseline and issues no
\* scroll; one that begins in scroll mode stays in it; a hand frame with any
\* other gesture that begins in scroll mode leaves it and clears the baseline.
C7_ScrollTransitions ==
  HandSeen =>
    /\ (~scrollWas /\ gesture_text = "OPEN_PALM")
         => /\ scroll_mode
            /\ last_index_y = At(lm, 8).y
            /\ Calls("scroll") = {}
    /\ (scrollWas /\ gesture_text = "OPEN_PALM")
         => (scroll_mode /\ last_index_y # None)
    /\ (scrollWas /\ gesture_text # "OPEN_PALM")
         => (~scroll_mode /\ last_index_y = None)

\* A fist frame has just ended a scroll mode that open-palm frames had
\* entered.
C7_Witness ==
  /\ HandSeen
  /\ scrollWas
  /\ gesture_text = "FIST"
  /\ ~scroll_mode
  /\ last_index_y = None

\* ------------------------------------------------------------------------
\* C8, C9, C10: the shared clocks
\* ------------------------------------------------------------------------
\* The first _throttle call of the latest frame on a key, and the last one.
FirstGate(key) == gates[Min(GatesOf(key))]
LastGate(key) == gates[CHOOSE j \in GatesOf(key) : \A k \in GatesOf(key) : k <= j]
\* Every call of the given kinds comes at least cd after the previous call
\* of any of them.
Spaced(kinds, cd) ==
  \A i \in DOMAIN intents :
    (intents[i].kind \in kinds /\ intents[i].prev # None)
      => intents[i].t - intents[i].prev >= cd

\* C8: a pinch issues click() and the L sign issues rightClick(), each
\* exactly when the one "click" clock allows it at that moment, and no click
\* or right-click follows another click or right-click by less than
\* COOLDOWN_MED, in the same frame or a later one.
C8_SharedClickClock ==
  HandSeen =>
    /\ Cardinality(GatesOf("click")) =
         (IF Pinched THEN 1 ELSE 0) + (IF gesture_text = "L_SIGN" THEN 1 ELSE 0)
    /\ Cardinality(Calls("click")) =
         IF Pinched /\ FirstGate("click").ok THEN 1 ELSE 0
    /\ Cardinality(Calls("rightClick")) =
         IF gesture_text = "L_SIGN" /\ LastGate("click").ok THEN 1 ELSE 0
    /\ \A j \in GatesOf("click") :
         gates[j].ok = (gates[j].t - gates[j].last >= COOLDOWN_MED)
    /\ Spaced({"click", "rightClick"}, COOLDOWN_MED)
    /\ \A i \in Calls("click"), k \in Calls("rightClick") :
         Abs(intents[i].t - intents[k].t) >= COOLDOWN_MED

\* A pinched L sign: the click fired and the right-click of the same frame
\* was refused.
C8_Witness ==
  /\ Pinched
  /\ gesture_text = "L_SIGN"
  /\ Calls("click") # {}
  /\ Calls("rightClick") = {}

\* C9: the OK sign, the L sign and the peace sign issue Ctrl+C, Ctrl+V and
\* Ctrl+S, no other gesture issues a hotkey, each is issued exactly when the
\* one "keyboard" clock allows it, and so no two hotkeys are less than
\* COOLDOWN_MED apart whichever gestures alternate.
C9_Shortcuts ==
  HandSeen =>
    /\ Cardinality(GatesOf("keyboard")) =
         IF gesture_text \in {"OK_SIGN", "L_SIGN", "PEACE"} THEN 1 ELSE 0
    /\ Cardinality(Calls("hotkey")) =
         IF /\ gesture_text \in {"OK_SIGN", "L_SIGN", "PEACE"}
            /\ FirstGate("keyboard").ok
         THEN 1 ELSE 0
    /\ \A i \in Calls("hotkey") :
         intents[i].arg = CASE gesture_text = "OK_SIGN" -> "ctrl+c"
                            [] gesture_text = "L_SIGN" -> "ctrl+v"
                            [] gesture_text = "PEACE" -> "ctrl+s"
    /\ \A j \in GatesOf("keyboard") :
         gates[j].ok = (gates[j].t - gates[j].last >= COOLDOWN_MED)
    /\ Spaced({"hotkey"}, COOLDOWN_MED)

\* A peace sign issues Ctrl+S one cooldown after an earlier shortcut.
C9_Witness ==
  /\ gesture_text = "PEACE"
  /\ \E i \in Calls("hotkey") :
       /\ intents[i].arg = "ctrl+s"
       /\ intents[i].prev # None
       /\ intents[i].t - intents[i].prev = COOLDOWN_MED

\* C10: thumbs up issues volume_up() and the fist volume_down(); a fist
\* frame issues volume_down() once when its reading is at least
\* COOLDOWN_SHORT after last_times["volume"] and nothing on the volume
\* otherwise; no volume call follows another, up or down, by less than
\* COOLDOWN_SHORT.
C10_Volume ==
  HandSeen =>
    /\ Cardinality(GatesOf("volume")) =
         IF gesture_text \in {"THUMBS_UP", "FIST"} THEN 1 ELSE 0
    /\ Cardinality(Calls("volume_up")) =
         IF gesture_text = "THUMBS_UP" /\ FirstGate("volume").ok THEN 1 ELSE 0
    /\ Cardinality(Calls("volume_down")) =
         IF gesture_text = "FIST" /\ FirstGate("volume").ok THEN 1 ELSE 0
    /\ \A j \in GatesOf("volume") :
         gates[j].ok = (gates[j].t - gates[j].last >= COOLDOWN_SHORT)
    /\ Spaced({"volume_up", "volume_down"}, COOLDOWN_SHORT)

\* A fist frame is refused volume_down() because of a volume call less than
\* COOLDOWN_SHORT before it.
C10_Witness ==
  /\ gesture_text = "FIST"
  /\ GatesOf("volume") # {}
  /\ ~FirstGate("volume").ok
  /\ FirstGate("volume").last > 0
  /\ Calls("volume_down") = {}

\* ------------------------------------------------------------------------
\* C3, C4, C5: sessions
\* ------------------------------------------------------------------------
\* C3: whatever the order of start(), stop() and the steps of the worker
\* threads, at most one thread is inside the frame loop of _loop at any
\* time, so no two threads run frame steps on the dispatcher's fields.
C3_OneWorker ==
  Cardinality({w \in Threads : pc[w] \in {"while", "body"}}) <= 1

\* C4: a worker that was inside _loop when stop() ran on a running session
\* eventually leaves the frame loop and returns from _loop, whose last step
\* is the release of the capture.
C4_StopEndsWorker ==
  \A w \in Threads : (w \in stopSeen) ~> (pc[w] = "done")

\* C5: a worker about to run the first frame of its session, every earlier
\* worker having returned, finds every cooldown clock at its initial value,
\* no smoothed pointer position, scroll_mode false and no scroll baseline.
C5_FreshSession ==
  \A w \in Threads :
    (/\ pc[w] = "body"
     /\ ~framesRun[w]
     /\ \A v \in Threads \ {w} : ~Alive(v))
      => /\ \A k \in Keys : last_times[k] = 0
         /\ prev_mouse_x = None
         /\ prev_mouse_y = None
         /\ ~scroll_mode
         /\ last_index_y = None

\* ------------------------------------------------------------------------
\* C11: independent clocks
\* ------------------------------------------------------------------------
\* The time of the latest call gated by a key, 0 when there was none.
Fired(key) == IF lastEmit[key] = None THEN 0 ELSE lastEmit[key]

\* C11: each cooldown clock holds the time of the latest firing of its own
\* key (0 before the first), whatever fired or was refused on the other keys
\* since; a _throttle call decides on the clock of its own key alone, which
\* for a firing is the time of the previous call of the same key; and the
\* "mute" clock is consulted by the rock gesture only and gates nothing but
\* mute_unmute().
C11_IndependentClocks ==
  /\ \A k \in Keys : last_times[k] = Fired(k)
  /\ \A j \in DOMAIN gates :
       /\ gates[j].ok = (gates[j].t - gates[j].last >= Cooldown(gates[j].key))
       /\ gates[j].ok =>
            \E i \in DOMAIN intents :
              /\ intents[i].key = gates[j].key
              /\ intents[i].t = gates[j].t
              /\ gates[j].last = (IF intents[i].prev = None THEN 0
                                  ELSE intents[i].prev)
  /\ HandSeen =>
       Cardinality(GatesOf("mute")) = (IF gesture_text = "ROCK" THEN 1 ELSE 0)
  /\ \A i \in DOMAIN intents :
       (intents[i].key = "mute") = (intents[i].kind = "mute_unmute")

\* A fist with a pinch clicks and turns the volume down in one frame, less
\* than any cooldown after a mute toggle.
C11_Witness ==
  /\ lastEmit["mute"] # None
  /\ \E i \in Calls("click") :
       /\ intents[i].t >= lastEmit["mute"]
       /\ intents[i].t - lastEmit["mute"] < COOLDOWN_SHORT
  /\ Calls("volume_down") # {}

\* ------------------------------------------------------------------------
\* The pointer: one session fed hands whose index tip lies at several places
\* of the screen, with and without gated actions, and frames without a hand.
\* ------------------------------------------------------------------------
PointerXs == {250, 500}
PointerYs == {400, 420, 500}
PointerHands ==
  {MkHand(FALSE, TRUE, FALSE, FALSE, FALSE, Apart, x, y) :
     x \in PointerXs, y \in PointerYs}
  \cup {Hand(FistPose, Near, 420), Hand(OpenPalmPose, Apart, 400)}
PointerReadings == {T0, T0 + 35}

NextPointer ==
  \/ start
  \/ \E w \in Threads : OpenCamera(w)
  \/ \E w \in Threads : LoopTest(w)
  \/ \E w \in Threads : FrameNoRead(w)
  \/ \E w \in Threads : FrameNoHand(w)
  \/ \E w \in Threads : FrameHand(w, PointerHands, PointerReadings)

SpecPointer == Init /\ [][NextPointer]_vars

\* ------------------------------------------------------------------------
\* C12: a frame without a hand
\* ------------------------------------------------------------------------
\* The pointer target of a hand: int(index_tip * screen size).
TargetX(h) == IntTrunc(At(h, 8).x * screen_w, 1000)
TargetY(h) == IntTrunc(At(h, 8).y * screen_h, 1000)
\* One smoothing step from position p toward target t, cut to an integer.
Smoothed(p, t) == IntTrunc(p * 100 + (t - p) * SMOOTHING, 100)
\* The step is one pass of some worker through the loop body.
FramePass == \E w \in Threads : pc[w] = "body" /\ pc'[w] = "while"

\* C12: a pass through the loop body that sees no hand issues no collaborator
\* call, consults no cooldown clock and changes none, and leaves the smoothed
\* pointer position as it was; the hand frame that follows frames without a
\* hand moves the pointer one smoothing step from that kept position and does
\* not start again from its target.
C12_NoHandFrame ==
  [][FramePass =>
       /\ (lm' = NoHand) =>
            /\ intents' = <<>>
            /\ gates' = <<>>
            /\ last_times' = last_times
            /\ prev_mouse_x' = prev_mouse_x
            /\ prev_mouse_y' = prev_mouse_y
       /\ (lm = NoHand /\ lm' # NoHand /\ prev_mouse_x # None) =>
            /\ prev_mouse_x' = Smoothed(prev_mouse_x, TargetX(lm'))
            /\ prev_mouse_y' = Smoothed(prev_mouse_y, TargetY(lm'))
            /\ \E i \in DOMAIN intents' :
                 /\ intents'[i].kind = "moveTo"
                 /\ intents'[i].arg = <<prev_mouse_x', prev_mouse_y'>>]_vars

\* A pass through the loop body has seen no hand while a smoothed pointer
\* position and a click clock that has fired were there to keep.
C12_Witness ==
  /\ lm = NoHand
  /\ gesture_text = "No hand"
  /\ prev_mouse_x # None
  /\ prev_mouse_y # None
  /\ last_times["click"] > 0
  /\ \E w \in Threads : framesRun[w]

\* ------------------------------------------------------------------------
\* C13: convergence of the smoothed pointer
\* ------------------------------------------------------------------------
\* The session with a worker that keeps being scheduled and a camera that
\* keeps delivering frames with a hand: the loop test is taken whenever it is
\* due, and hand frames come again and again.
FairPointer ==
  /\ SpecPointer
  /\ \A w \in Threads :
       /\ WF_vars(LoopTest(w))
       /\ SF_vars(FrameHand(w, PointerHands, PointerReadings))

\* C13: when from some frame on every frame shows the same hand, the smoothed
\* pointer position eventually equals that hand's target, from whatever
\* position it starts, above or below the target.
C13_Converges ==
  \A h \in PointerHands :
    (<>[](lm = h)) =>
      <>(prev_mouse_x = TargetX(h) /\ prev_mouse_y = TargetY(h))

\* ------------------------------------------------------------------------
\* C14: the click scenario
\* ------------------------------------------------------------------------
\* One session fed hands whose thumb and index tips are 0.01 apart, at clock
\* readings 10 ms and 0.9 s apart.
ClickHands ==
  {Hand(FistPose, Touching, 400), Hand(IndexOnlyPose, Touching, 400),
   Hand(FistPose, Apart, 400)}
ClickReadings == {T0, T0 + 1, T0 + COOLDOWN_MED, T0 + COOLDOWN_MED + 1}

NextClick ==
  \/ start
  \/ \E w \in Threads : OpenCamera(w)
  \/ \E w \in Threads : LoopTest(w)
  \/ \E w \in Threads : FrameNoRead(w)
  \/ \E w \in Threads : FrameNoHand(w)
  \/ \E w \in Threads : FrameHand(w, ClickHands, ClickReadings)

SpecClick == Init /\ [][NextClick]_vars

\* The hand's thumb and index tips are 0.01 apart.
PinchOf10(h) == h # NoHand /\ PinchSq(h) = 10 * 10

\* C14: a frame whose thumb-index distance is 0.01 issues click() once when
\* the click clock has never fired; and when the same hand comes again with
\* the click gate reading the clock 10 ms after a click of the frame before,
\* that second frame issues no click().
C14_ClickScenario ==
  [][(FramePass /\ PinchOf10(lm')) =>
       LET clicks == {i \in DOMAIN intents : intents[i].kind = "click"}
           clicks2 == {i \in DOMAIN intents' : intents'[i].kind = "click"}
           gates2 == {j \in DOMAIN gates' : gates'[j].key = "click"}
       IN  /\ (last_times["click"] = 0) => Cardinality(clicks2) = 1
           /\ (/\ lm' = lm
               /\ clicks # {}
               /\ \E i \in clicks, j \in gates2 :
                    gates'[j].t = intents[i].t + 1)
                => clicks2 = {}]_vars

\* A pinch of 0.01 is refused its click 10 ms after a click.
C14_Witness ==
  /\ PinchOf10(lm)
  /\ Calls("click") = {}
  /\ \E j \in GatesOf("click") :
       ~gates[j].ok /\ gates[j].last > 0 /\ gates[j].t = gates[j].last + 1

\* ------------------------------------------------------------------------
\* C15: classify on landmark lists of other lengths
\* ------------------------------------------------------------------------
\* A call of classify as the caller sees it.  Lines 136-140 index the list up
\* to lm[20] before any rule is tried: on a list of fewer than 21 landmarks
\* that indexing raises IndexError and no label is returned; nothing in
\* classify looks at the length otherwise.
classify_call(l) == IF Len(l) <= 20 THEN "IndexError" ELSE classify(l)

\* Landmark lists of 20, 21 and 22 points.
Shortened(h) == SubSeq(h, 1, 20)
Lengthened(h) == Append(h, Pt(500, 500))
AnyLists ==
  AllHands \cup {Shortened(h) : h \in AllHands}
           \cup {Lengthened(h) : h \in AllHands}

InitAnyList ==
  /\ lm \in AnyLists
  /\ gesture_text = "No hand"
  /\ running = FALSE
  /\ status = "Status: Idle"
  /\ cap = None
  /\ camera = [c \in Threads |-> "unopened"]
  /\ pc = [w \in Threads |-> "unborn"]
  /\ prev_mouse_x = None
  /\ prev_mouse_y = None
  /\ last_times = [k \in Keys |-> 0]
  /\ scroll_mode = FALSE
  /\ last_index_y = None
  /\ now = T0
  /\ intents = <<>>
  /\ gates = <<>>
  /\ scrollWas = FALSE
  /\ lastEmit = [k \in Keys |-> None]
  /\ stopSeen = {}
  /\ framesRun = [w \in Threads |-> FALSE]
  /\ entering = [w \in Threads |-> None]

ClassifyAnyList ==
  /\ gesture_text = "No hand"
  /\ gesture_text' = classify_call(lm)
  /\ UNCHANGED <<running, status, cap, camera, pc, prev_mouse_x, prev_mouse_y,
                 last_times, scroll_mode, last_index_y, now, lm, intents,
                 gates, scrollWas, lastEmit, stopSeen, framesRun>>
  /\ UNCHANGED entering

SpecAnyList == InitAnyList /\ [][ClassifyAnyList]_vars

\* C15: classify called with a landmark list whose length is not 21, shorter
\* or longer, ends in an error and gives no gesture label.
C15_RejectsMalformed ==
  (gesture_text # "No hand" /\ Len(lm) # 21) => gesture_text = "IndexError"

\* ------------------------------------------------------------------------
\* C16: collaborator calls that fail
\* ------------------------------------------------------------------------
\* The collaborator calls of _loop.
CallKinds ==
  {"moveTo", "click", "rightClick", "volume_up", "volume_down",
   "mute_unmute", "hotkey", "scroll"}
\* What may fail in one frame: nothing, any one call, or every call.
FailSets == {{}} \cup {{k} : k \in CallKinds} \cup {CallKinds}
FailHands ==
  {Hand(LSignPose, Near, 400), Hand(FistPose, Touching, 400),
   Hand(ThumbsUpPose, Apart, 400), Hand(FistPose, Apart, 400),
   Hand(RockPose, Apart, 400), Hand(OpenPalmPose, Near, 400),
   Hand(OpenPalmPose, Apart, 420)}
FailReadings == {T0, T0 + COOLDOWN_MED}

NextFailing ==
  \/ start
  \/ \E w \in Threads : OpenCamera(w)
  \/ \E w \in Threads : LoopTest(w)
  \/ \E w \in Threads : FrameNoRead(w)
  \/ \E w \in Threads : FrameNoHand(w)
  \/ \E w \in Threads : FrameHandFailing(w, FailHands, FailReadings, FailSets)

SpecFailing == Init /\ [][NextFailing]_vars

\* C16: whichever collaborator calls of a hand frame fail, the frame still
\* moves the pointer state, consults the clock of every action its hand
\* qualifies for, issues the call of every gate that fired and runs the
\* scroll block at its end; the worker stays in the frame loop; and the clock
\* of a failed call stays at the time of that call, so that no call of the
\* same key follows it by less than the cooldown.
C16_FailuresContained ==
  /\ \A w \in Threads : framesRun[w] => pc[w] \in {"while", "body"}
  /\ HandSeen =>
       /\ Cardinality(Calls("moveTo")) = 1
       /\ \A i \in Calls("moveTo") :
            intents[i].arg = <<prev_mouse_x, prev_mouse_y>>
       /\ Cardinality(GatesOf("click")) =
            (IF Pinched THEN 1 ELSE 0)
              + (IF gesture_text = "L_SIGN" THEN 1 ELSE 0)
       /\ Cardinality(GatesOf("volume")) =
            IF gesture_text \in {"THUMBS_UP", "FIST"} THEN 1 ELSE 0
       /\ Cardinality(GatesOf("mute")) =
            IF gesture_text = "ROCK" THEN 1 ELSE 0
       /\ Cardinality(GatesOf("keyboard")) =
            IF gesture_text \in {"OK_SIGN", "L_SIGN", "PEACE"} THEN 1 ELSE 0
       /\ scroll_mode = (gesture_text = "OPEN_PALM")
       /\ \A k \in Keys :
            Cardinality({i \in DOMAIN intents : intents[i].key = k}) =
              Cardinality({j \in GatesOf(k) : gates[j].ok})
  /\ \A i \in DOMAIN intents :
       /\ (intents[i].failed /\ intents[i].key \in Keys) =>
            last_times[intents[i].key] >= intents[i].t
       /\ (intents[i].key \in Keys /\ intents[i].prev # None) =>
            intents[i].t - intents[i].prev >= Cooldown(intents[i].key)

\* The pointer move and the click of a frame failed, and the frame went on
\* to consult the keyboard clock and to issue its shortcut.
C16_Witness ==
  /\ \E i \in Calls("moveTo") : intents[i].failed
  /\ \E i \in Calls("click") : intents[i].failed
  /\ Calls("hotkey") # {}
  /\ last_times["click"] = now

\* ------------------------------------------------------------------------
\* C17: the scroll amount
\* ------------------------------------------------------------------------
\* One session fed open palms at several heights (and a fist, which leaves
\* scroll mode), at clock readings one scroll cooldown apart.
ScrollYs == {409, 420, 422, 431}
ScrollHands ==
  {Hand(OpenPalmPose, Apart, y) : y \in ScrollYs}
  \cup {Hand(FistPose, Apart, 420)}
ScrollReadings == {T0, T0 + COOLDOWN_SCROLL}

NextScroll ==
  \/ start
  \/ \E w \in Threads : OpenCamera(w)
  \/ \E w \in Threads : LoopTest(w)
  \/ \E w \in Threads : FrameNoRead(w)
  \/ \E w \in Threads : FrameNoHand(w)
  \/ \E w \in Threads : FrameHand(w, ScrollHands, ScrollReadings)

SpecScroll == Init /\ [][NextScroll]_vars

\* n / d rounded to the nearest integer, ties to even (d > 0).
RoundNearest(n, d) ==
  LET q == n \div d
      r == n - q * d
  IN  IF 2 * r < d THEN q
      ELSE IF 2 * r > d THEN q + 1
      ELSE IF q % 2 = 0 THEN q ELSE q + 1

\* C17: in a hand frame with an open palm that begins in scroll mode, with
\* dy = baseline - index_tip.y, scroll() is called exactly when
\* |dy| > SCROLL_MIN_DELTA, the scroll clock allows it and the amount is not
\* zero; it is called once, with round(dy * SCROLL_SENSITIVITY), which has
\* the sign of dy.
C17_ScrollEmission ==
  [][((\E w \in Threads : FrameHand(w, ScrollHands, ScrollReadings))
        /\ gesture_text' = "OPEN_PALM" /\ scroll_mode) =>
       LET dy == last_index_y - At(lm', 8).y
           amount == RoundNearest(dy * SCROLL_SENSITIVITY, 1000)
           scrolls == {i \in DOMAIN intents' : intents'[i].kind = "scroll"}
           allowed == \E j \in DOMAIN gates' :
                        /\ gates'[j].key = "scroll"
                        /\ gates'[j].t - last_times["scroll"] >= COOLDOWN_SCROLL
       IN  /\ (scrolls # {}) =
                (Abs(dy) > SCROLL_MIN_DELTA /\ allowed /\ amount # 0)
           /\ Cardinality(scrolls) <= 1
           /\ \A i \in scrolls :
                /\ intents'[i].arg = amount
                /\ (intents'[i].arg > 0) = (dy > 0)]_vars

\* ------------------------------------------------------------------------
\* C18: the pointer move
\* ------------------------------------------------------------------------
\* One smoothing step from position p toward the target c * size / 1000 of a
\* coordinate c (in thousandths), rounded to the nearest integer:
\* p + (c * size / 1000 - p) * SMOOTHING / 100.
RoundedStep(p, c, size) ==
  RoundNearest(p * 1000 * (100 - SMOOTHING) + c * size * SMOOTHING, 100000)

\* C18: every hand frame, whatever its gesture and whatever the cooldown
\* clocks say, calls moveTo exactly once; when there is no smoothed position
\* yet the position passed is the target index_tip * screen size, otherwise it
\* is previous + (target - previous) * SMOOTHING rounded to an integer.
C18_PointerMove ==
  [][(\E w \in Threads : FrameHand(w, PointerHands, PointerReadings)) =>
       LET moves == {i \in DOMAIN intents' : intents'[i].kind = "moveTo"}
           tip == At(lm', 8)
       IN  /\ Cardinality(moves) = 1
           /\ \A i \in moves :
                intents'[i].arg =
                  IF prev_mouse_x = None
                  THEN <<RoundNearest(tip.x * screen_w, 1000),
                         RoundNearest(tip.y * screen_h, 1000)>>
                  ELSE <<RoundedStep(prev_mouse_x, tip.x, screen_w),
                         RoundedStep(prev_mouse_y, tip.y, screen_h)>>]_vars

\* ------------------------------------------------------------------------
\* C19: scroll mode and its baseline
\* ------------------------------------------------------------------------
\* C19: whenever no worker is inside the scroll block of a frame, scroll_mode
\* is true exactly when the baseline last_index_y is set, across hand
\* frames, frames without a hand, stop() and start().
C19_ModeIffBaseline ==
  (\A w \in Threads : pc[w] # "entered")
    => (scroll_mode = (last_index_y # None))

\* ------------------------------------------------------------------------
\* C20: the OK sign is also a pinch
\* ------------------------------------------------------------------------
\* The _throttle calls of the latest frame on one key whose clock allowed
\* the action: the reading was at least COOLDOWN_MED after last_times[key].
Allowing(key) ==
  {j \in GatesOf(key) : gates[j].t - gates[j].last >= COOLDOWN_MED}
\* The hotkey('ctrl', 'c') calls of the latest frame.
Copies == {i \in Calls("hotkey") : intents[i].arg = "ctrl+c"}

\* C20: DIST_OK_THRESHOLD is below PINCH_THRESHOLD, so every hand frame
\* classified OK_SIGN is also a pinch and consults the "click" clock and the
\* "keyboard" clock once each; when both clocks allow, the frame issues both
\* one click() and one hotkey('ctrl', 'c'); and hotkey('ctrl', 'c') is never
\* issued in a frame whose thumb-index distance is PINCH_THRESHOLD or more.
C20_OkSignPinches ==
  /\ DIST_OK_THRESHOLD < PINCH_THRESHOLD
  /\ (HandSeen /\ gesture_text = "OK_SIGN") =>
       /\ Pinched
       /\ Cardinality(GatesOf("click")) = 1
       /\ Cardinality(GatesOf("keyboard")) = 1
       /\ (Allowing("click") # {} /\ Allowing("keyboard") # {}) =>
            /\ Cardinality(Calls("click")) = 1
            /\ Cardinality(Copies) = 1
  /\ (Copies # {}) => Pinched

\* An OK_SIGN frame has issued both a click and a copy.
C20_Witness ==
  /\ HandSeen
  /\ gesture_text = "OK_SIGN"
  /\ Calls("click") # {}
  /\ Copies # {}

====
